---- MODULE Spec2Model ----
(***************************************************************************)
(* A state-machine model of the voxel prototypes of the echoes repository: *)
(*   - voxel.py  : VoxelWorld (place_voxel, remove_voxel, exposed,         *)
(*                 __setitem__) and its geometry buffers;                  *)
(*   - main.py   : Model (world, add_block, remove_block, exposed,         *)
(*                 hit_test) and Window (collide, update, key and mouse    *)
(*                 handlers, get_motion_vector);                           *)
(*   - characters.py : Character (update, get_motion_vector).              *)
(* Continuous quantities are fixed-point integers: a length x is stored as *)
(* x * Scale, so 0.25 is Scale \div 4 and one ray sub-step of a unit       *)
(* direction is Scale \div 8; a velocity v is stored as v * VScale, a time  *)
(* as a count of 1/480 s, an angle as a count of 1/20 degree.              *)
(***************************************************************************)
EXTENDS Integers, Sequences, FiniteSets, TLC

VARIABLES
    prog,          \* which prototype runs: "voxel" (voxel.py), "main" (main.py) or
                   \* "characters" (characters.py)
    voxels,        \* VoxelWorld._voxels: insertion-ordered dict, as a sequence of items
    vdata_rows,    \* rows written to VoxelWorld._vdata by the three vertex writers
    prim,          \* VoxelWorld._prim: the vertex indices added, in order
    world,         \* Model.world: position -> texture
    shown,         \* Model._shown: the positions that have a vertex list
    vertex_count,  \* Model.vertex_count
    vertex,        \* Model.vertex: position -> how many times the 24 rows of the cube
                   \* at that position were written to the vertex data
    position,      \* Window.position, Character.position (fixed point)
    dy,            \* Window.dy, the vertical velocity (fixed point)
    flying,        \* Window.flying, FPSControls.flying
    strafe,        \* Window.strafe, Character.strafe
    rotation,      \* Window.rotation, Character.rotation: <<horizontal, vertical>>
    exclusive,     \* Window.exclusive
    keys,          \* the keys the keyboard holds down
    dz,            \* Character.dz, the vertical velocity (fixed point)
    call           \* the last call made on the program, with what it returned or raised

vars == <<prog, voxels, vdata_rows, prim, world, shown, vertex_count, vertex,
          position, dy, flying, strafe, rotation, exclusive, keys, dz, call>>

voxelVars == <<voxels, vdata_rows, prim>>
modelVars == <<world, shown, vertex_count, vertex>>
controlVars == <<strafe, rotation, exclusive, keys, dz>>
windowVars == <<position, dy, flying, controlVars>>

-----------------------------------------------------------------------------
(* Bounds of the model *)

\* the most voxels a VoxelWorld is grown to under Spec
MaxVoxels == 3

\* the most voxels a VoxelWorld is grown to under SpecExposed
MaxCrossVoxels == 6

\* the most cubes a Model draws (vertex_count \div 24) before it is left alone
MaxDrawn == 6

\* the largest max_distance hit_test is called with
MaxRayDistance == 10

\* the depth, in cells below the start, at which a falling player is left alone
MaxFall == 64

\* the turn to a side, in degrees, after which the mouse is left alone
MaxYaw == 360

\* the distance from the start, in cells, at which a walking Character is left alone
MaxWalk == 3

\* the most cubes written to the vertex data of a Model whose blocks are added
\* and removed around one cell, before it is left alone
MaxShown == 7

-----------------------------------------------------------------------------
(* Coordinates *)

\* None, for a call that returns or holds no coordinate
None == <<>>

Origin == <<0, 0, 0>>

\* voxel.py UNIT_VECTORS, in the order the code lists them
UNIT_VECTORS ==
    << <<0, 1, 0>>, <<0, -1, 0>>, <<-1, 0, 0>>, <<1, 0, 0>>, <<0, 0, 1>>, <<0, 0, -1>> >>

\* main.py FACES, in the order the code lists them
FACES ==
    << <<0, 1, 0>>, <<0, -1, 0>>, <<-1, 0, 0>>, <<1, 0, 0>>, <<0, 0, 1>>, <<0, 0, -1>> >>

Add(p, q) == <<p[1] + q[1], p[2] + q[2], p[3] + q[3]>>

Range(s) == {s[i] : i \in 1..Len(s)}

\* The cells the exposure queries are driven with: a cell and its six neighbours.
Cross == {Origin} \cup {Add(Origin, u) : u \in Range(UNIT_VECTORS)}

\* The cells the container operations are driven with.
Cells == {Origin, <<0, 1, 0>>, <<1, 0, 0>>, <<0, 0, 1>>}

-----------------------------------------------------------------------------
(* voxel.py: Voxel, VoxelWorld *)

\* Voxel(position, initial_index)
Voxel(pos, initial_index) == [position |-> pos, index |-> initial_index]

\* the keys of the dict, in insertion order
Keys(vx) == {vx[i].key : i \in 1..Len(vx)}

\* position in self  (iteration over the dict's keys)
Contains(vx, pos) == pos \in Keys(vx)

\* the slot of a key in the insertion order
SlotOf(vx, k) == CHOOSE i \in 1..Len(vx) : vx[i].key = k

\* self._voxels[key] = value : a new key is appended, an existing key keeps its place
DictSet(vx, k, v) ==
    IF Contains(vx, k)
    THEN [vx EXCEPT ![SlotOf(vx, k)] = [key |-> k, value |-> v]]
    ELSE Append(vx, [key |-> k, value |-> v])

\* make_indices(start): the 36 indices of a cube's 12 triangles
IndexOffsets ==
    << 0, 1, 2, 3, 2, 1,
       4, 5, 6, 7, 6, 5,
       8, 9, 10, 11, 10, 9,
       12, 13, 14, 15, 14, 13,
       16, 17, 18, 19, 18, 17,
       20, 21, 22, 23, 22, 21 >>

\* the indices of a cube that is always taken to be the first
make_indices_from_zero(start) == [i \in 1..Len(IndexOffsets) |-> IndexOffsets[i]]

\* make_indices(start): tuple(start + v for v in offsets)
make_indices(start) == [i \in 1..Len(IndexOffsets) |-> start + IndexOffsets[i]]

\* make_vertices(position) returns 24 rows (6 faces of 4 vertices)
VerticesPerCube == 6 * 4

\* start_index counted one cube too far
start_index_off_by_one(vx) == (Len(vx) + 1) * 24

\* place_voxel: start_index = len(self._voxels) * 24
start_index(vx) == Len(vx) * 24

\* place_voxel without its membership test: an occupied position is replaced
place_guard_never(vx, pos) == FALSE

\* if position in self: return
place_guard(vx, pos) == Contains(vx, pos)

\* The call record: op, the arguments, what was returned, what was raised.
Call(op, args, ret, raised) == [op |-> op, args |-> args, ret |-> ret, raised |-> raised]

NoCall == Call("init", <<>>, None, "none")

\* VoxelWorld.place_voxel(voxel_type, position), add_data included
place_voxel(pos) ==
    /\ prog = "voxel"
    /\ IF place_guard(voxels, pos)
       THEN UNCHANGED voxelVars
       ELSE /\ voxels' = DictSet(voxels, pos, Voxel(pos, start_index(voxels)))
            /\ vdata_rows' = vdata_rows + VerticesPerCube
            /\ prim' = prim \o make_indices(start_index(voxels))
    /\ call' = Call("place_voxel", <<pos>>, None, "none")
    /\ UNCHANGED <<prog, modelVars, windowVars>>

\* VoxelWorld.remove_voxel(position): raise NotImplementedError()
remove_voxel_raises == "NotImplementedError"

remove_voxel(pos) ==
    /\ prog = "voxel"
    /\ call' = Call("remove_voxel", <<pos>>, None, remove_voxel_raises)
    /\ UNCHANGED <<prog, voxelVars, modelVars, windowVars>>

\* the indices a caller hands to __setitem__ in a Voxel
RawIndices == {0, 24}

\* VoxelWorld.__setitem__(key, value): self._voxels[key] = value
setitem(k, v) ==
    /\ prog = "voxel"
    /\ voxels' = DictSet(voxels, k, v)
    /\ call' = Call("__setitem__", <<k>>, None, "none")
    /\ UNCHANGED <<prog, vdata_rows, prim, modelVars, windowVars>>

\* the scan of exposed(): the first absent neighbour returns True
RECURSIVE exposed_scan(_, _, _, _)
exposed_scan(faces, occupied, pos, k) ==
    IF k > Len(faces) THEN FALSE
    ELSE IF Add(pos, faces[k]) \notin occupied THEN TRUE
    ELSE exposed_scan(faces, occupied, pos, k + 1)

\* exposed() with its loop started one face late
VoxelWorld_exposed_skips_first(vx, pos) == exposed_scan(UNIT_VECTORS, Keys(vx), pos, 2)

\* VoxelWorld.exposed(position)
VoxelWorld_exposed(vx, pos) == exposed_scan(UNIT_VECTORS, Keys(vx), pos, 1)

exposed_voxel(pos) ==
    /\ prog = "voxel"
    /\ call' = Call("exposed", <<pos>>, VoxelWorld_exposed(voxels, pos), "none")
    /\ UNCHANGED <<prog, voxelVars, modelVars, windowVars>>

-----------------------------------------------------------------------------
(* main.py: Model *)

\* the textures a block is added with (Window.inventory) or loaded with
SOLID_BLOCK == "SOLID_BLOCK"
HAZARD_BLOCK == "HAZARD_BLOCK"
Inventory == {SOLID_BLOCK, HAZARD_BLOCK}

\* position in self.world
InWorld(w, pos) == pos \in DOMAIN w

\* self.world[position] = texture
WorldSet(w, pos, texture) ==
    [q \in (DOMAIN w) \cup {pos} |-> IF q = pos THEN texture ELSE w[q]]

\* del self.world[position]
WorldDel(w, pos) == [q \in (DOMAIN w) \ {pos} |-> w[q]]

\* a world loaded from a file, or built by add_block: the blocks at S
WorldOf(S, texture) == [q \in S |-> texture]

\* Model.exposed(position)
Model_exposed(w, pos) == exposed_scan(FACES, DOMAIN w, pos, 1)

\* The drawing state that show_block / hide_block work on.
Draw(sh, vc, vt) == [shown |-> sh, vertex_count |-> vc, vertex |-> vt]

\* how often the rows of the cube at pos were written
Copies(vt, pos) == IF pos \in DOMAIN vt THEN vt[pos] ELSE 0

\* _show_block: for vertex in cube_vertices(position, 0.5): self.vertex.addData3f
Written(vt, pos) ==
    [q \in (DOMAIN vt) \cup {pos} |-> IF q = pos THEN Copies(vt, pos) + 1 ELSE vt[q]]

\* Model._show_block (reached through show_block, immediate): one vertex is added
\* per row of cube_vertices, 24 in all; self._shown is not written.
show_block(d, pos) ==
    Draw(d.shown, d.vertex_count + VerticesPerCube, Written(d.vertex, pos))

\* Model.hide_block: self._shown.pop(position).delete(); the vertex data and the
\* vertex count are not touched
hide_block(d, pos) == Draw(d.shown \ {pos}, d.vertex_count, d.vertex)

\* one turn of the loop of check_neighbors, for the neighbour `key`
check_neighbor(w, d, key) ==
    IF ~InWorld(w, key) THEN d
    ELSE IF Model_exposed(w, key)
         THEN IF key \notin d.shown THEN show_block(d, key) ELSE d
         ELSE IF key \in d.shown THEN hide_block(d, key) ELSE d

\* Model.check_neighbors(position): the loop over FACES, from face k on
RECURSIVE check_neighbors(_, _, _, _)
check_neighbors(w, d, pos, k) ==
    IF k > Len(FACES) THEN d
    ELSE check_neighbors(w, check_neighbor(w, d, Add(pos, FACES[k])), pos, k + 1)

\* if position in self.world: return
add_guard(w, pos) == InWorld(w, pos)

\* Model.add_block(position, texture, immediate)
add_block(pos, texture, immediate) ==
    /\ prog = "main"
    /\ IF add_guard(world, pos)
       THEN UNCHANGED modelVars
       ELSE LET w == WorldSet(world, pos, texture)
                d0 == Draw(shown, vertex_count, vertex)
                d1 == IF Model_exposed(w, pos) THEN show_block(d0, pos) ELSE d0
                d2 == IF immediate THEN check_neighbors(w, d1, pos, 1) ELSE d0
            IN  /\ world' = w
                /\ shown' = d2.shown
                /\ vertex_count' = d2.vertex_count
                /\ vertex' = d2.vertex
    /\ call' = Call("add_block", <<pos, texture, immediate>>, None, "none")
    /\ UNCHANGED <<prog, voxelVars, windowVars>>

\* a removal that never misses its key
del_raises_never(w, pos) == FALSE

\* del self.world[position] raises KeyError when the position is absent
del_raises(w, pos) == ~InWorld(w, pos)

\* Model.remove_block(position): del self.world[position] raises KeyError when absent
remove_block(pos) ==
    /\ prog = "main"
    /\ IF del_raises(world, pos)
       THEN /\ UNCHANGED modelVars
            /\ call' = Call("remove_block", <<pos>>, None, "KeyError")
       ELSE LET w == WorldDel(world, pos)
                d0 == Draw(shown, vertex_count, vertex)
                d1 == IF pos \in shown THEN hide_block(d0, pos) ELSE d0
                d2 == check_neighbors(w, d1, pos, 1)
            IN  /\ world' = w
                /\ shown' = d2.shown
                /\ vertex_count' = d2.vertex_count
                /\ vertex' = d2.vertex
                /\ call' = Call("remove_block", <<pos>>, None, "none")
    /\ UNCHANGED <<prog, voxelVars, windowVars>>

\* a call of Model.exposed(position)
exposed_model(pos) ==
    /\ prog = "main"
    /\ call' = Call("exposed", <<pos>>, Model_exposed(world, pos), "none")
    /\ UNCHANGED <<prog, voxelVars, modelVars, windowVars>>

\* Model._initialize with the world w unpickled from the file: every exposed block
\* is shown, the queue is processed.
Loaded(w) ==
    /\ world = w
    /\ shown = {}
    /\ vertex_count = VerticesPerCube * Cardinality({b \in DOMAIN w : Model_exposed(w, b)})
    /\ vertex = [b \in {c \in DOMAIN w : Model_exposed(w, c)} |-> 1]

-----------------------------------------------------------------------------
(* Specification of the world operations *)

\* Window.__init__: strafe [0, 0], rotation (0, 0), not exclusive; no key is down
InitControls ==
    /\ strafe = <<0, 0>>
    /\ rotation = <<0, 0>>
    /\ exclusive = FALSE
    /\ keys = {}
    /\ dz = 0

InitWindow ==
    /\ position = Origin
    /\ dy = 0
    /\ flying = FALSE
    /\ InitControls

InitVoxel ==
    /\ prog = "voxel"
    /\ voxels = <<>>
    /\ vdata_rows = 0
    /\ prim = <<>>
    /\ world = <<>>
    /\ shown = {}
    /\ vertex_count = 0
    /\ vertex = <<>>
    /\ InitWindow
    /\ call = NoCall

\* main.py starts with the world its file holds
InitMain(cells) ==
    /\ prog = "main"
    /\ voxels = <<>>
    /\ vdata_rows = 0
    /\ prim = <<>>
    /\ \E S \in SUBSET cells : Loaded(WorldOf(S, SOLID_BLOCK))
    /\ InitWindow
    /\ call = NoCall

Init == InitVoxel \/ InitMain(Cells)

\* the world may grow by one more voxel
Room(max) == Len(voxels) < max

\* the Model has not yet drawn its fill of cubes
Drawable == vertex_count < VerticesPerCube * MaxDrawn

Next ==
    \/ \E p \in Cells : (Contains(voxels, p) \/ Room(MaxVoxels)) /\ place_voxel(p)
    \/ \E p \in Cells : remove_voxel(p)
    \/ \E p \in Cells : exposed_voxel(p)
    \/ \E k \in Cells, i \in RawIndices :
          (Contains(voxels, k) \/ Room(MaxVoxels)) /\ setitem(k, Voxel(k, i))
    \/ \E p \in Cells, t \in Inventory, im \in BOOLEAN :
          Drawable /\ add_block(p, t, im)
    \/ \E p \in Cells : Drawable /\ remove_block(p)
    \/ \E p \in Cells : exposed_model(p)

Spec == Init /\ [][Next]_vars

-----------------------------------------------------------------------------
(* Specification of the exposure queries: a VoxelWorld grown over a cell   *)
(* and its six neighbours, or a Model whose file holds any of these cells. *)

InitExposed == InitVoxel \/ InitMain(Cross)

NextExposed ==
    \/ \E p \in Cross : (Contains(voxels, p) \/ Room(MaxCrossVoxels)) /\ place_voxel(p)
    \/ \E p \in Cross : exposed_voxel(p)
    \/ \E p \in Cross : exposed_model(p)

SpecExposed == InitExposed /\ [][NextExposed]_vars

-----------------------------------------------------------------------------
(* Specification of the showing and hiding: a Model whose file holds any of *)
(* a cell and its six neighbours, with blocks added (immediate) and removed *)
(* among these cells.                                                       *)

\* the Model has not yet written its fill of cubes
Showable == vertex_count < VerticesPerCube * MaxShown

InitShow == InitMain(Cross)

NextShow ==
    \/ \E p \in Cross : Showable /\ add_block(p, SOLID_BLOCK, TRUE)
    \/ \E p \in Cross : Showable /\ remove_block(p)

SpecShow == InitShow /\ [][NextShow]_vars

-----------------------------------------------------------------------------
(* main.py: normalize and Model.hit_test, in fixed point *)

\* A velocity v is held as the integer v * VScale.  One sub-step of _update lasts
\* 1/480 s and takes dt * GRAVITY = 1/24 from the velocity: VScale is a multiple
\* of 24.
VScale == 24 * 10

\* A length x is held as the integer x * Scale.  Scale is a multiple of 8 (the ray
\* sub-steps of the directions used are exact), of 100 (pad, 0.9, 1.26 are exact)
\* and of 480 * VScale (the way made in 1/480 s at a velocity is exact).
Scale == 480 * VScale

\* the coordinate c as a fixed-point length
Fix(c) == c * Scale

\* the fixed-point velocity of c units a second
Vel(c) == c * VScale

\* int(round(x)): Python 3 rounds to the nearest integer, a tie to the even one
Round(v) ==
    LET q == v \div Scale
        r == v % Scale
    IN  IF 2 * r < Scale THEN q
        ELSE IF 2 * r > Scale THEN q + 1
        ELSE IF q % 2 = 0 THEN q ELSE q + 1

\* the cell found by flooring instead of rounding
normalize_floor(pos) == <<pos[1] \div Scale, pos[2] \div Scale, pos[3] \div Scale>>

\* normalize(position)
normalize(pos) == <<Round(pos[1]), Round(pos[2]), Round(pos[3])>>

\* hit_test: m = 8
M == 8

\* hit_test: max_distance: int=8
DefaultMaxDistance == 8

\* the sub-step taken with the whole direction vector
ray_step_whole(vector) == vector

\* hit_test: dx / m, dy / m, dz / m
ray_step(vector) == <<vector[1] \div M, vector[2] \div M, vector[3] \div M>>

\* the loop of hit_test ending one sample early
scan_count_short(max_distance) == max_distance * M - 1

\* hit_test: range(max_distance * m)
scan_count(max_distance) == max_distance * M

\* the ray's first cell taken as already seen
first_previous_is_origin(pos) == normalize(pos)

\* hit_test: previous = None
first_previous(pos) == None

\* the pair hit_test returns
Pair(hit, previous) == [hit |-> hit, previous |-> previous]

\* a hit reported with its own cell as the previous block
hit_result_own_cell(key, previous) == Pair(key, key)

\* hit_test: return key, previous
hit_result(key, previous) == Pair(key, previous)

\* the loop of hit_test: `left` samples are still to be taken, the next one at p
RECURSIVE hit_scan(_, _, _, _, _)
hit_scan(w, p, step, previous, left) ==
    IF left <= 0 THEN Pair(None, None)
    ELSE LET key == normalize(p)
         IN  IF key # previous /\ InWorld(w, key)
             THEN hit_result(key, previous)
             ELSE hit_scan(w, Add(p, step), step, key, left - 1)

\* Model.hit_test(position, vector, max_distance)
Model_hit_test(w, pos, vector, max_distance) ==
    hit_scan(w, pos, ray_step(vector), first_previous(pos), scan_count(max_distance))

\* a call of Model.hit_test
hit_test(pos, vector, max_distance) ==
    /\ prog = "main"
    /\ call' = Call("hit_test", <<pos, vector, max_distance>>,
                    Model_hit_test(world, pos, vector, max_distance), "none")
    /\ UNCHANGED <<prog, voxelVars, modelVars, windowVars>>

\* The cells a ray-cast world holds, the ray origins and the directions.
HitCells ==
    {<<0, 0, 0>>, <<0, 0, -1>>, <<0, 0, -2>>, <<0, 0, -9>>, <<1, 0, 0>>, <<1, 0, -1>>}

HitOrigins ==
    { <<0, 0, Fix(-10)>>,                    \* (0, 0, -10)
      <<0, 0, -((27 * Scale) \div 8)>>,      \* (0, 0, -3.375)
      <<0, 0, 0>>,                           \* (0, 0, 0)
      <<Scale \div 2, 0, Fix(-2)>>,          \* (0.5, 0, -2)
      <<(9 * Scale) \div 20, 0, -((31 * Scale) \div 20)>> }   \* (0.45, 0, -1.55)

HitVectors ==
    { <<0, 0, Fix(1)>>,                                \* (0, 0, 1)
      <<0, 0, Fix(-1)>>,                               \* (0, 0, -1)
      <<Fix(1), 0, 0>>,                                \* (1, 0, 0)
      <<(3 * Scale) \div 5, 0, (4 * Scale) \div 5>>,   \* (0.6, 0, 0.8)
      <<0, 0, Fix(2)>> }                               \* (0, 0, 2)

\* a ray is about to be cast: the arguments are drawn, the call is not yet made
Pending(args) == Call("pending", args, None, "none")

\* a loaded world and the ray to cast in it
InitHit ==
    /\ prog = "main"
    /\ voxels = <<>>
    /\ vdata_rows = 0
    /\ prim = <<>>
    /\ \E S \in SUBSET HitCells : Loaded(WorldOf(S, SOLID_BLOCK))
    /\ InitWindow
    /\ \E o \in HitOrigins, v \in HitVectors, d \in 1..MaxRayDistance :
          call = Pending(<<o, v, d>>)

NextHit ==
    call.op = "pending" /\ hit_test(call.args[1], call.args[2], call.args[3])

SpecHit == InitHit /\ [][NextHit]_vars

-----------------------------------------------------------------------------
(* main.py: Window.collide, in fixed point *)

\* main.py constants
GRAVITY == 20
MAX_JUMP_HEIGHT == 5
TERMINAL_VELOCITY == 50
PLAYER_HEIGHT == 2

\* math.sqrt, to the fixed-point unit below: the largest r with r * r <= n
ISqrt(n) == CHOOSE r \in 0..Vel(TERMINAL_VELOCITY) : r * r <= n /\ (r + 1) * (r + 1) > n

\* JUMP_SPEED = math.sqrt(2 * GRAVITY * MAX_JUMP_HEIGHT), as a fixed-point velocity
JUMP_SPEED == ISqrt(2 * GRAVITY * MAX_JUMP_HEIGHT * VScale * VScale)

\* collide with no tolerance: any touch collides
pad_zero == 0 * Scale

\* collide: pad = 0.25
pad == Scale \div 4

\* the axis (1, 2 or 3) a face looks along
FaceAxis(face) == CHOOSE i \in 1..3 : face[i] # 0

\* only the floor counted as a vertical face
is_vertical_floor_only(face) == face = <<0, -1, 0>>

\* collide: face == (0, -1, 0) or face == (0, 1, 0)
is_vertical(face) == face = <<0, -1, 0>> \/ face = <<0, 1, 0>>

\* the correction pushing all the way to the cell centre
push_back_to_centre(d, pd) == d

\* collide: p[i] -= (d - pad) * face[i], the length pushed back
push_back(d, pd) == d - pd

\* a loop that also takes the offset k = height
offsets_done_after_height(k, height) == k > height

\* collide: for dy in range(height) takes the offsets 0 .. height - 1
offsets_done(k, height) == k >= height

\* collide: for dy in range(height), from offset k on: is an occupied cell found
\* at np lowered by the offset and moved one cell along the face
RECURSIVE height_scan(_, _, _, _, _)
height_scan(w, np, face, k, height) ==
    IF offsets_done(k, height) THEN FALSE
    ELSE IF InWorld(w, Add(<<np[1], np[2] - k, np[3]>>, face)) THEN TRUE
    ELSE height_scan(w, np, face, k + 1, height)

\* The state the loop of collide works on: the position p and the velocity self.dy.
Body(p, v) == [p |-> p, dy |-> v]

\* one turn of the loop over FACES, the local pad having the value pd
collide_face(w, np, b, face, height, pd) ==
    LET i == FaceAxis(face)
        d == (b.p[i] - Fix(np[i])) * face[i]
    IN  IF d < pd THEN b
        ELSE IF ~height_scan(w, np, face, 0, height) THEN b
        ELSE Body([b.p EXCEPT ![i] = b.p[i] - push_back(d, pd) * face[i]],
                  IF is_vertical(face) THEN 0 ELSE b.dy)

\* the loop over FACES, from face k on
RECURSIVE collide_faces(_, _, _, _, _, _)
collide_faces(w, np, b, k, height, pd) ==
    IF k > Len(FACES) THEN b
    ELSE collide_faces(w, np, collide_face(w, np, b, FACES[k], height, pd), k + 1, height, pd)

\* the body of collide with the local pad set to pd
collide_with_pad(w, v, pos, height, pd) ==
    collide_faces(w, normalize(pos), Body(pos, v), 1, height, pd)

\* Window.collide(position, height): the corrected position and the new self.dy
Window_collide(w, v, pos, height) == collide_with_pad(w, v, pos, height, pad)

\* a call of Window.collide
collide(pos, height) ==
    /\ prog = "main"
    /\ LET b == Window_collide(world, dy, pos, height)
       IN  /\ dy' = b.dy
           /\ call' = Call("collide", <<pos, height>>, b.p, "none")
    /\ UNCHANGED <<prog, voxelVars, modelVars, position, flying, controlVars>>

\* The cells a collision world holds, the coordinates of a desired position and
\* the vertical velocities a call is made at.
CollideCells ==
    {<<0, 0, 0>>, <<0, -1, 0>>, <<0, 1, 0>>, <<1, 0, 0>>, <<0, 0, 1>>, <<1, -1, 0>>}

\* -0.4, 0, 0.25, 0.5, 0.7, 0.9
AxisValues ==
    {-((2 * Scale) \div 5), 0, Scale \div 4, Scale \div 2, (7 * Scale) \div 10, (9 * Scale) \div 10}

DyValues == {0, JUMP_SPEED, -Vel(TERMINAL_VELOCITY)}

\* a loaded world, a vertical velocity and the position collide is to be called with
InitCollide ==
    /\ prog = "main"
    /\ voxels = <<>>
    /\ vdata_rows = 0
    /\ prim = <<>>
    /\ \E S \in SUBSET CollideCells : Loaded(WorldOf(S, SOLID_BLOCK))
    /\ position = Origin
    /\ dy \in DyValues
    /\ flying = FALSE
    /\ InitControls
    /\ \E x \in AxisValues, y \in AxisValues, z \in AxisValues :
          call = Pending(<<(<<x, y, z>>), PLAYER_HEIGHT>>)

NextCollide ==
    call.op = "pending" /\ collide(call.args[1], call.args[2])

SpecCollide == InitCollide /\ [][NextCollide]_vars

-----------------------------------------------------------------------------
(* Specification of collide with its pad tuned to 0.5 and more, the values  *)
(* its comment warns of: "If >= .5, you'll fall through the ground."        *)

\* a call of Window.collide whose line `pad = 0.25` reads `pad = pd`
collide_tuned(pos, height, pd) ==
    /\ prog = "main"
    /\ LET b == collide_with_pad(world, dy, pos, height, pd)
       IN  /\ dy' = b.dy
           /\ call' = Call("collide", <<pos, height, pd>>, b.p, "none")
    /\ UNCHANGED <<prog, voxelVars, modelVars, position, flying, controlVars>>

\* 0.5, 0.6, 1
PadValues == {Scale \div 2, (3 * Scale) \div 5, Scale}

InitPad ==
    /\ prog = "main"
    /\ voxels = <<>>
    /\ vdata_rows = 0
    /\ prim = <<>>
    /\ \E S \in SUBSET CollideCells : Loaded(WorldOf(S, SOLID_BLOCK))
    /\ position = Origin
    /\ dy \in DyValues
    /\ flying = FALSE
    /\ InitControls
    /\ \E x \in AxisValues, y \in AxisValues, z \in AxisValues, pd \in PadValues :
          call = Pending(<<(<<x, y, z>>), PLAYER_HEIGHT, pd>>)

NextPad ==
    call.op = "pending" /\ collide_tuned(call.args[1], call.args[2], call.args[3])

SpecPad == InitPad /\ [][NextPad]_vars

-----------------------------------------------------------------------------
(* main.py, characters.py: angles and get_motion_vector *)

\* An angle of a degrees is held as the integer a * AScale: the mouse factor
\* m = 0.15 of on_mouse_motion is 3 of these units a pixel.
AScale == 4 * 5

Deg(a) == a * AScale

\* math.sin on 0 .. 90 degrees, as a multiple of 1 / VScale: exact to the unit at
\* 0, 30, 45, 60 and 90 degrees, linear between them
SinQ(a) ==
    IF a <= Deg(30) THEN (a * 120) \div Deg(30)
    ELSE IF a <= Deg(45) THEN 120 + ((a - Deg(30)) * 50) \div Deg(15)
    ELSE IF a <= Deg(60) THEN 170 + ((a - Deg(45)) * 38) \div Deg(15)
    ELSE 208 + ((a - Deg(60)) * 32) \div Deg(30)

\* math.sin(math.radians(a))
Sin(a) ==
    LET r == a % Deg(360)
    IN  IF r <= Deg(90) THEN SinQ(r)
        ELSE IF r <= Deg(180) THEN SinQ(Deg(180) - r)
        ELSE IF r <= Deg(270) THEN -SinQ(r - Deg(180))
        ELSE -SinQ(Deg(360) - r)

\* math.cos(math.radians(a))
Cos(a) == Sin(a + Deg(90))

\* the product of two numbers held as multiples of 1 / VScale
MulUnit(a, b) == IF a * b >= 0 THEN (a * b) \div VScale ELSE -((-(a * b)) \div VScale)

\* math.degrees(math.atan2(y, x)) for components that are 0 or of equal size
Atan2Deg(y, x) ==
    IF y = 0 THEN (IF x < 0 THEN 180 ELSE 0)
    ELSE IF y > 0 THEN (IF x > 0 THEN 45 ELSE IF x = 0 THEN 90 ELSE 135)
    ELSE (IF x > 0 THEN -45 ELSE IF x = 0 THEN -90 ELSE -135)

\* get_motion_vector: if self.strafe[0] > 0:  # Moving backwards.
moving_backwards(st) == st[1] > 0

\* The body both get_motion_vector methods share: the two ground-plane components
\* h1 (cos) and h2 (sin) and the vertical component v, as multiples of 1 / VScale.
motion_vector(st, rot, fly) ==
    IF st = <<0, 0>> THEN [h1 |-> 0, h2 |-> 0, v |-> 0]
    ELSE LET x_angle == rot[1] + Deg(Atan2Deg(st[1], st[2]))
             y_angle == rot[2]
         IN  IF fly
             THEN LET sideways == st[2] # 0
                      m == IF sideways THEN VScale ELSE Cos(y_angle)
                      v0 == IF sideways THEN 0 ELSE Sin(y_angle)
                      v1 == IF moving_backwards(st) THEN -v0 ELSE v0
                  IN  [h1 |-> MulUnit(Cos(x_angle), m),
                       h2 |-> MulUnit(Sin(x_angle), m),
                       v |-> v1]
             ELSE [h1 |-> Cos(x_angle), h2 |-> Sin(x_angle), v |-> 0]

\* Window.get_motion_vector(): (dx, dy, dz), y being the vertical axis
Window_get_motion_vector(st, rot, fly) ==
    LET mv == motion_vector(st, rot, fly) IN <<mv.h1, mv.v, mv.h2>>

\* Character.get_motion_vector(): Vec3D(dx, dy, dz), z being the vertical axis
Character_get_motion_vector(st, rot, fly) ==
    LET mv == motion_vector(st, rot, fly) IN <<mv.h1, mv.h2, mv.v>>

-----------------------------------------------------------------------------
(* main.py: Window.update, _update and the key handlers *)

WALKING_SPEED == 5
FLYING_SPEED == 15

\* A time t is held as the integer t * TScale: the sub-step (1/60) / 8 is 1.
TScale == 60 * 8

\* dt * GRAVITY, for a time step of n / TScale seconds, as a velocity
gravity_step(n) == n * ((GRAVITY * VScale) \div TScale)

\* a fall with no terminal velocity
terminal_clamp_none(v) == v

\* self.dy = max(self.dy, -TERMINAL_VELOCITY)
terminal_clamp(v) == IF v > -Vel(TERMINAL_VELOCITY) THEN v ELSE -Vel(TERMINAL_VELOCITY)

\* Window._update(dt), dt = n / TScale: the position and self.dy it leaves, from
\* the position and velocity in b
Window__update(w, b, st, rot, fly, n) ==
    LET speed == IF fly THEN FLYING_SPEED ELSE WALKING_SPEED
        mv == Window_get_motion_vector(st, rot, fly)
        v == IF fly THEN b.dy ELSE terminal_clamp(b.dy - gravity_step(n))
        ddx == mv[1] * n * speed
        ddy == mv[2] * n * speed + (IF fly THEN 0 ELSE v * n)
        ddz == mv[3] * n * speed
    IN  Window_collide(w, v, <<b.p[1] + ddx, b.p[2] + ddy, b.p[3] + ddz>>, PLAYER_HEIGHT)

\* for _ in range(m): self._update(dt / m), with `left` turns still to make; a
\* turn's position is worked out before the next turn is taken
RECURSIVE update_loop(_, _, _, _, _, _, _)
update_loop(w, b, st, rot, fly, n, left) ==
    IF left = 0 THEN b
    ELSE LET nb == Window__update(w, b, st, rot, fly, n)
         IN  IF Len(nb.p) = 3
             THEN update_loop(w, nb, st, rot, fly, n, left - 1)
             ELSE nb

\* update: dt = 1/60, whatever time has elapsed since the last call
update_dt(elapsed) == TScale \div 60

\* update: m = 8
update_m == 8

\* update: dt = min(dt, 0.2)
dt_ceiling == TScale \div 5

\* what a tick did: the number of integration steps and the length of each
Ticked(steps, n) == [steps |-> steps, dt |-> n]

\* Window.update(task), called `elapsed` after the last call
update(elapsed) ==
    /\ prog = "main"
    /\ LET dt0 == update_dt(elapsed)
           dt == IF dt0 < dt_ceiling THEN dt0 ELSE dt_ceiling
           n == dt \div update_m
           b == update_loop(world, Body(position, dy), strafe, rotation, flying, n, update_m)
       IN  /\ position' = b.p
           /\ dy' = b.dy
           /\ call' = Call("update", <<elapsed>>, Ticked(update_m, n), "none")
    /\ UNCHANGED <<prog, voxelVars, modelVars, flying, controlVars>>

\* a jump allowed at any velocity that is not upward
jump_guard_not_rising(v) == v <= 0

\* if self.dy == 0:
jump_guard(v) == v = 0

\* The key symbols the handlers compare with; main.py names them key.W ... key.TAB
\* and leaves the binding of `key` to its host.
MoveKeys == {"W", "S", "A", "D"}
KeySymbols == MoveKeys \cup {"SPACE", "TAB"}

\* Window.on_key_press(symbol, modifiers)
on_key_press(symbol) ==
    /\ prog = "main"
    /\ strafe' = IF symbol = "W" THEN <<strafe[1] - 1, strafe[2]>>
                 ELSE IF symbol = "S" THEN <<strafe[1] + 1, strafe[2]>>
                 ELSE IF symbol = "A" THEN <<strafe[1], strafe[2] - 1>>
                 ELSE IF symbol = "D" THEN <<strafe[1], strafe[2] + 1>>
                 ELSE strafe
    /\ dy' = IF symbol = "SPACE" /\ jump_guard(dy) THEN JUMP_SPEED ELSE dy
    /\ flying' = IF symbol = "TAB" THEN ~flying ELSE flying
    /\ keys' = IF symbol \in MoveKeys THEN keys \cup {symbol} ELSE keys
    /\ call' = Call("on_key_press", <<symbol>>, None, "none")
    /\ UNCHANGED <<prog, voxelVars, modelVars, position, rotation, exclusive, dz>>

\* Window.on_key_release(symbol, modifiers)
on_key_release(symbol) ==
    /\ prog = "main"
    /\ strafe' = IF symbol = "W" THEN <<strafe[1] + 1, strafe[2]>>
                 ELSE IF symbol = "S" THEN <<strafe[1] - 1, strafe[2]>>
                 ELSE IF symbol = "A" THEN <<strafe[1], strafe[2] + 1>>
                 ELSE IF symbol = "D" THEN <<strafe[1], strafe[2] - 1>>
                 ELSE strafe
    /\ keys' = keys \ {symbol}
    /\ call' = Call("on_key_release", <<symbol>>, None, "none")
    /\ UNCHANGED <<prog, voxelVars, modelVars, position, dy, flying, rotation, exclusive, dz>>

\* a mouse that turns the view without any limit
clamp_pitch_none(y) == y

\* y = max(-90, min(90, y)); rotation[1] = min(max(-90, rotation[1]), 90)
clamp_pitch(y) == IF y < Deg(-90) THEN Deg(-90) ELSE IF y > Deg(90) THEN Deg(90) ELSE y

\* on_mouse_motion: m = 0.15 degrees a pixel
mouse_m == (15 * AScale) \div 100

\* Window.on_mouse_motion(x, y, dx, dy): dx and dy are pixels
on_mouse_motion(mdx, mdy) ==
    /\ prog = "main"
    /\ rotation' = IF exclusive
                   THEN <<rotation[1] + mdx * mouse_m, clamp_pitch(rotation[2] + mdy * mouse_m)>>
                   ELSE rotation
    /\ call' = Call("on_mouse_motion", <<mdx, mdy>>, None, "none")
    /\ UNCHANGED <<prog, voxelVars, modelVars, position, dy, flying, strafe, exclusive, keys, dz>>

\* a call of Window.get_motion_vector()
get_motion_vector ==
    /\ prog = "main"
    /\ call' = Call("get_motion_vector", <<>>,
                    Window_get_motion_vector(strafe, rotation, flying), "none")
    /\ UNCHANGED <<prog, voxelVars, modelVars, windowVars>>

-----------------------------------------------------------------------------
(* characters.py: Character.update and get_motion_vector *)

\* characters.py: MAX_JUMP_HEIGHT = 1.0 and the JUMP_SPEED it gives; GRAVITY,
\* TERMINAL_VELOCITY, PLAYER_HEIGHT and the two speeds are those of main.py
Character_MAX_JUMP_HEIGHT == 1
Character_JUMP_SPEED == ISqrt(2 * GRAVITY * Character_MAX_JUMP_HEIGHT * VScale * VScale)

\* fps_controls.py ActionKey: the actions Character.update polls
ActionKeys == {"Up", "Down", "Left", "Right", "Jump"}

\* strafe[0] = 1 for Up, -1 for Down (Up wins); strafe[1] = -1 for Left, 1 for
\* Right (Left wins)
Character_strafe(pressed) ==
    << IF "Up" \in pressed THEN 1 ELSE IF "Down" \in pressed THEN -1 ELSE 0,
       IF "Left" \in pressed THEN -1 ELSE IF "Right" \in pressed THEN 1 ELSE 0 >>

\* The worlds Character.update is handed.  The VoxelWorld of voxel.py has no
\* collide: the call raises AttributeError.  "floor" is a world that resolves
\* collisions, holding nothing but a level floor two cells under the origin.
WorldKinds == {"VoxelWorld", "floor"}

\* the height a character rests at on the floor
FloorLevel == Fix(-2)

\* collide(character, desired_position, player_height) of the floor world: the
\* corrected position, and the vertical velocity zeroed on a vertical collision
floor_collide(desired, v) ==
    IF desired[3] < FloorLevel
    THEN [p |-> <<desired[1], desired[2], FloorLevel>>, dz |-> 0]
    ELSE [p |-> desired, dz |-> v]

\* the mouse change counts quarters of the watcher's unit: dx * 60 degrees
mouse_turn(q) == q * Deg(15)

\* What Character.update(dt, world) leaves, dt = n / TScale, from the position
\* pos, the rotation rot and the velocity v0, with the keys `pressed` down and the
\* mouse change `mouse`: the statements up to world.collide, then either the
\* AttributeError or the rest.
Character_step(pos, rot, v0, fly, n, kind, pressed, mouse) ==
    LET st == Character_strafe(pressed)
        jumped == IF "Jump" \in pressed /\ jump_guard(v0) THEN Character_JUMP_SPEED ELSE v0
        speed == IF fly THEN FLYING_SPEED ELSE WALKING_SPEED
        mv == Character_get_motion_vector(st, rot, fly)
        v == IF fly THEN jumped ELSE terminal_clamp(jumped - gravity_step(n))
        desired == <<pos[1] + mv[1] * n * speed,
                     pos[2] + mv[2] * n * speed,
                     pos[3] + mv[3] * n * speed + (IF fly THEN 0 ELSE v * n)>>
        c == floor_collide(desired, v)
    IN  IF kind = "VoxelWorld"
        THEN [strafe |-> st, dz |-> v, position |-> pos, rotation |-> rot,
              ret |-> None, raised |-> "AttributeError"]
        ELSE [strafe |-> st, dz |-> c.dz, position |-> c.p,
              rotation |-> <<rot[1] - mouse_turn(mouse[1]),
                             clamp_pitch(rot[2] + mouse_turn(mouse[2]))>>,
              ret |-> Ticked(1, n), raised |-> "none"]

\* a call of Character.update(dt, world)
Character_update(n, kind, pressed, mouse) ==
    /\ prog = "characters"
    /\ LET r == Character_step(position, rotation, dz, flying, n, kind, pressed, mouse)
       IN  /\ strafe' = r.strafe
           /\ keys' = pressed
           /\ dz' = r.dz
           /\ position' = r.position
           /\ rotation' = r.rotation
           /\ call' = Call("update", <<n, kind, pressed, mouse>>, r.ret, r.raised)
    /\ UNCHANGED <<prog, voxelVars, modelVars, dy, flying, exclusive>>

\* FPSControls.toggle_fly()
toggle_fly ==
    /\ prog = "characters"
    /\ flying' = ~flying
    /\ call' = Call("toggle_fly", <<>>, None, "none")
    /\ UNCHANGED <<prog, voxelVars, modelVars, position, dy, controlVars>>

\* a call of Character.get_motion_vector(); self.strafe is set by update only
Character_motion ==
    /\ prog = "characters"
    /\ call' = IF strafe = None
               THEN Call("get_motion_vector", <<>>, None, "AttributeError")
               ELSE Call("get_motion_vector", <<>>,
                         Character_get_motion_vector(strafe, rotation, flying), "none")
    /\ UNCHANGED <<prog, voxelVars, modelVars, windowVars>>

\* Character.__init__(controls, position, rotation): dz = 0, no strafe yet;
\* FPSControls.flying = False
InitCharacter ==
    /\ prog = "characters"
    /\ voxels = <<>>
    /\ vdata_rows = 0
    /\ prim = <<>>
    /\ world = <<>>
    /\ shown = {}
    /\ vertex_count = 0
    /\ vertex = <<>>
    /\ position = Origin
    /\ dy = 0
    /\ flying = FALSE
    /\ strafe = None
    /\ rotation = <<0, 0>>
    /\ exclusive = FALSE
    /\ keys = {}
    /\ dz = 0
    /\ call = NoCall

-----------------------------------------------------------------------------
(* Specification of the vertical motion: a Window ticking under gravity,   *)
(* with the jump and fly keys, over a floor and a ceiling that may be      *)
(* there; a Character updated with time steps of several lengths.          *)

\* the floor two cells under the start position and the ceiling right over it
TickCells == {<<0, -2, 0>>, <<0, 1, 0>>}

\* the times between two calls of update: 1/60 s, 0.1 s, 0.2 s, 1 s
ElapsedValues == {TScale \div 60, TScale \div 10, TScale \div 5, TScale}

\* the time steps Character.update is called with: 0.2 s, 1 s, 10 s
DtValues == {TScale \div 5, TScale, 10 * TScale}

\* the player has not yet fallen MaxFall cells below the start
Falling == position[2] > -Fix(MaxFall)

InitTick ==
    \/ /\ prog = "main"
       /\ voxels = <<>>
       /\ vdata_rows = 0
       /\ prim = <<>>
       /\ \E S \in SUBSET TickCells : Loaded(WorldOf(S, SOLID_BLOCK))
       /\ InitWindow
       /\ call = NoCall
    \/ InitCharacter

NextTick ==
    \/ \E e \in ElapsedValues : Falling /\ update(e)
    \/ \E k \in {"SPACE", "TAB"} : on_key_press(k)
    \/ \E n \in DtValues, kind \in WorldKinds, pressed \in {{}, {"Jump"}} :
          Character_update(n, kind, pressed, <<0, 0>>)
    \/ toggle_fly

SpecTick == InitTick /\ [][NextTick]_vars

-----------------------------------------------------------------------------
(* Specification of the steering: the movement and fly keys, the mouse and  *)
(* get_motion_vector of a Window that stands still; a Character updated    *)
(* with keys down and the mouse moved.                                      *)

\* the mouse moves of a Window, in pixels: 30 degrees up, 30 degrees down, and a
\* sweep of 90 degrees to the side and 120 degrees up
MouseMoves == {<<0, 200>>, <<0, -200>>, <<600, 800>>}

\* the mouse changes of a Character, in quarters of the watcher's unit: none,
\* 30 degrees up, 30 degrees down, and a sweep of 90 degrees to the side and 120
\* degrees up
MouseChanges == {<<0, 0>>, <<0, 2>>, <<0, -2>>, <<6, 8>>}

\* the keys held down during an update of a Character
SteerKeys == {{}, {"Up"}, {"Down"}, {"Up", "Right"}}

\* the view has not yet been turned MaxYaw degrees to a side
Turnable == rotation[1] < Deg(MaxYaw) /\ rotation[1] > -Deg(MaxYaw)

\* the player is within MaxWalk cells of the start along every axis
InReach == \A i \in 1..3 : position[i] <= Fix(MaxWalk) /\ position[i] >= -Fix(MaxWalk)

\* a Window over an empty world, its mouse captured or not (main.py never sets
\* self.exclusive itself; whoever captures the mouse does), or a Character
InitSteer ==
    \/ /\ prog = "main"
       /\ voxels = <<>>
       /\ vdata_rows = 0
       /\ prim = <<>>
       /\ Loaded(WorldOf({}, SOLID_BLOCK))
       /\ position = Origin
       /\ dy = 0
       /\ flying = FALSE
       /\ strafe = <<0, 0>>
       /\ rotation = <<0, 0>>
       /\ exclusive \in BOOLEAN
       /\ keys = {}
       /\ dz = 0
       /\ call = NoCall
    \/ InitCharacter

NextSteer ==
    \/ \E k \in MoveKeys \cup {"TAB"} : k \notin keys /\ on_key_press(k)
    \/ \E k \in keys : on_key_release(k)
    \/ \E m \in MouseMoves : Turnable /\ on_mouse_motion(m[1], m[2])
    \/ get_motion_vector
    \/ \E kind \in WorldKinds, pressed \in SteerKeys, mouse \in MouseChanges :
          Turnable /\ InReach /\ Character_update(TScale, kind, pressed, mouse)
    \/ toggle_fly
    \/ Character_motion

SpecSteer == InitSteer /\ [][NextSteer]_vars

-----------------------------------------------------------------------------
(* Properties of the world operations *)

\* the position a call was made with
Arg == call.args[1]

C1_WitnessAddBlock ==
    /\ call.op = "add_block"
    /\ InWorld(world, Arg)
    /\ world[Arg] # call.args[2]

\* the i-th voxel in insertion order has slot index (i - 1) * 24: the indices are
\* unique, strictly increasing, and n * 24 for the voxel inserted at count n
SlotsInOrder(vx) == \A i \in 1..Len(vx) : vx[i].value.index = (i - 1) * 24

\* C2, as claimed: after any sequence of VoxelWorld operations the slot indices
\* are unique, increasing in insertion order and n * 24.
C2_SlotsAfterAnyOperations == SlotsInOrder(voxels)

\* C2, amended: place_voxel keeps the slot order: from a world whose slots are in
\* order (the empty world is), a place_voxel step leaves them in order, and a
\* voxel it inserts gets the index 24 * (the count before).
C2_PlaceVoxelKeepsSlots ==
    /\ SlotsInOrder(voxels)
    /\ [][ (call'.op = "place_voxel" /\ SlotsInOrder(voxels))
             => /\ SlotsInOrder(voxels')
                /\ Len(voxels') > Len(voxels)
                     => voxels'[Len(voxels')].value.index = 24 * Len(voxels) ]_vars

\* three voxels placed one after the other, the last by the call just made
C2_Witness ==
    /\ call.op = "place_voxel"
    /\ Len(voxels) >= 3
    /\ voxels[Len(voxels)].key = Arg
    /\ voxels[Len(voxels)].value.index = 48
    /\ vdata_rows = 72

\* C3: remove_voxel on an occupied position removes it and leaves every other
\* position's voxel as it was.
C3_RemoveVoxelRemoves ==
    [][ (call'.op = "remove_voxel" /\ Contains(voxels, call'.args[1]))
          => /\ ~Contains(voxels', call'.args[1])
             /\ \A q \in Keys(voxels) \ {call'.args[1]} :
                   /\ Contains(voxels', q)
                   /\ voxels'[SlotOf(voxels', q)].value = voxels[SlotOf(voxels, q)].value
      ]_vars

\* the cells a world holds, whichever prototype runs
Occupied == IF prog = "voxel" THEN Keys(voxels) ELSE DOMAIN world

\* at least one of the six face-adjacent cells of p is absent
SomeNeighbourAbsent(occupied, p) ==
    \E d \in {<<1, 0, 0>>, <<-1, 0, 0>>, <<0, 1, 0>>, <<0, -1, 0>>, <<0, 0, 1>>, <<0, 0, -1>>} :
        Add(p, d) \notin occupied

\* C4: exposed(p) is true exactly when one of the six face-adjacent cells of p is
\* absent, for VoxelWorld.exposed and Model.exposed, whether or not p is held.
C4_ExposedIffNeighbourAbsent ==
    /\ \A p \in Cross :
         /\ VoxelWorld_exposed(voxels, p) = SomeNeighbourAbsent(Keys(voxels), p)
         /\ Model_exposed(world, p) = SomeNeighbourAbsent(DOMAIN world, p)
    /\ call.op = "exposed" => call.ret = SomeNeighbourAbsent(Occupied, Arg)

\* VoxelWorld.exposed returned False for a cell that is itself absent, all six
\* neighbours having been placed
C4_Witness ==
    /\ prog = "voxel"
    /\ call.op = "exposed"
    /\ call.ret = FALSE
    /\ ~Contains(voxels, Arg)

\* Model.exposed returned True with exactly one neighbour absent
C4_WitnessOneAbsent ==
    /\ prog = "main"
    /\ call.op = "exposed"
    /\ call.ret = TRUE
    /\ Cardinality({u \in Range(FACES) : Add(Arg, u) \notin DOMAIN world}) = 1

\* C16: Model.remove_block(p) with p absent from the world raises KeyError and
\* changes nothing: the world, the shown set and the vertex count (the geometry)
\* are as they were before the call.
C16_RemoveAbsentRaisesAndKeeps ==
    [][ (call'.op = "remove_block" /\ ~InWorld(world, call'.args[1]))
          => /\ call'.raised = "KeyError"
             /\ UNCHANGED modelVars ]_vars

\* remove_block raised KeyError on a world that holds a block next to the absent
\* position, a block check_neighbors would have drawn
C16_Witness ==
    /\ call.op = "remove_block"
    /\ call.raised = "KeyError"
    /\ ~InWorld(world, Arg)
    /\ \E u \in Range(FACES) : InWorld(world, Add(Arg, u))

\* the blocks next to pos
NeighboursIn(w, pos) == {Add(pos, f) : f \in Range(FACES)} \cap DOMAIN w

\* C22: after an add_block(immediate=True) or a remove_block that changed the
\* world, every block next to the changed position has its cube in the vertex
\* data if and only if it is exposed, and a block that had its cube there and
\* stayed in the world has not had it written again.
C22_NeighboursShownIffExposed ==
    [][ (/\ call'.op \in {"add_block", "remove_block"}
         /\ call'.raised = "none"
         /\ world' # world)
        => \A key \in NeighboursIn(world', call'.args[1]) :
              /\ Copies(vertex', key) >= 1 <=> Model_exposed(world', key)
              /\ (InWorld(world, key) /\ Copies(vertex, key) >= 1)
                    => Copies(vertex', key) = Copies(vertex, key)
      ]_vars

\* the rows a voxel has reserved: [index, index + 24)
RowsOf(v) == v.index .. (v.index + VerticesPerCube - 1)

\* the indices add_data emitted for the voxel stored i-th
IndicesOf(i) ==
    {prim[j] : j \in ((i - 1) * Len(IndexOffsets) + 1) .. (i * Len(IndexOffsets))}

\* C24: after any sequence of place_voxel calls, with N voxels stored the vertex
\* data holds exactly 24 * N rows and the primitive 36 * N indices; the rows
\* [index, index + 24) of every voxel lie inside the rows written and share no
\* row with those of another voxel; and every index emitted for a voxel lies in
\* that voxel's own rows.
C24_BufferMatchesVoxels ==
    prog = "voxel" =>
        /\ vdata_rows = 24 * Len(voxels)
        /\ Len(prim) = 36 * Len(voxels)
        /\ \A i \in 1..Len(voxels) :
              /\ RowsOf(voxels[i].value) \subseteq 0 .. (vdata_rows - 1)
              /\ \A j \in (1..Len(voxels)) \ {i} :
                    RowsOf(voxels[i].value) \cap RowsOf(voxels[j].value) = {}
              /\ IndicesOf(i) \subseteq RowsOf(voxels[i].value)

\* the world grown to its fill, the last call a placement at a cell already held
C24_Witness ==
    /\ prog = "voxel"
    /\ Len(voxels) = MaxCrossVoxels
    /\ call.op = "place_voxel"
    /\ \E i \in 1..(Len(voxels) - 1) : voxels[i].key = call.args[1]

-----------------------------------------------------------------------------
(* Properties of hit_test *)

\* the arguments of a hit_test call
RayOrigin == call.args[1]
RayVector == call.args[2]
RayDistance == call.args[3]

\* the k-th sample of the ray: origin + k * direction / 8
Sample(k) ==
    <<RayOrigin[1] + k * (RayVector[1] \div 8),
      RayOrigin[2] + k * (RayVector[2] \div 8),
      RayOrigin[3] + k * (RayVector[3] \div 8)>>

\* the samples visited that round to an occupied cell
OccupiedSamples == {k \in 0..(RayDistance * 8 - 1) : normalize(Sample(k)) \in DOMAIN world}

\* the first of them
FirstOccupied == CHOOSE k \in OccupiedSamples : \A j \in OccupiedSamples : k <= j

\* C5: a hit is the first occupied cell in march order (no earlier sample rounds to
\* an occupied cell), and with no occupied sample among the max_distance * 8
\* visited the result is (None, None).
C5_FirstOccupiedInMarchOrder ==
    call.op = "hit_test" =>
        IF OccupiedSamples = {}
        THEN call.ret = Pair(None, None)
        ELSE /\ call.ret.hit = normalize(Sample(FirstOccupied))
             /\ call.ret.hit \in DOMAIN world

\* a hit found after the ray crossed empty cells, with occupied cells further on
C5_Witness ==
    /\ call.op = "hit_test"
    /\ call.ret.hit # None
    /\ call.ret.previous # None
    /\ Cardinality({normalize(Sample(k)) : k \in OccupiedSamples}) >= 2

\* hit_test found nothing within its step budget although the world is not empty
C5_WitnessNoHit ==
    /\ call.op = "hit_test"
    /\ DOMAIN world # {}
    /\ call.ret = Pair(None, None)

\* the ray of C6: from (0, 0, -10) toward (0, 0, 1), the only voxel at (0, 0, 0)
C6_Ray ==
    /\ call.op = "hit_test"
    /\ RayOrigin = <<0, 0, Fix(-10)>>
    /\ RayVector = <<0, 0, Fix(1)>>
    /\ DOMAIN world = {<<0, 0, 0>>}

\* C6, as claimed: with the default max_distance the ray returns hit (0, 0, 0) and
\* previous (0, 0, -1).
C6_DefaultDistanceHits ==
    (C6_Ray /\ RayDistance = DefaultMaxDistance)
        => call.ret = Pair(<<0, 0, 0>>, <<0, 0, -1>>)

\* C6, amended: with max_distance up to 9 (the default 8 included) the ray ends
\* short of the voxel and returns (None, None); from max_distance 10 on it returns
\* hit (0, 0, 0) and previous (0, 0, -1).
C6_HitsFromDistanceTen ==
    C6_Ray =>
        IF RayDistance <= 9
        THEN call.ret = Pair(None, None)
        ELSE call.ret = Pair(<<0, 0, 0>>, <<0, 0, -1>>)

\* the ray of C6 cast with the default max_distance
C6_Witness == C6_Ray /\ RayDistance = DefaultMaxDistance /\ call.ret = Pair(None, None)

\* the ray of C6 cast far enough to hit
C6_WitnessHit == C6_Ray /\ RayDistance = 10 /\ call.ret.hit = <<0, 0, 0>>

\* C7, as claimed: a ray whose origin rounds to an occupied cell returns
\* (None, None).
C7_InsideGeometryNoHit ==
    (call.op = "hit_test" /\ normalize(RayOrigin) \in DOMAIN world)
        => call.ret = Pair(None, None)

\* C7, amended: hit_test never raises; a ray whose origin rounds to an occupied
\* cell returns that cell as the hit, with previous None; (None, None) is returned
\* exactly when no visited sample rounds to an occupied cell.
C7_InsideGeometryHitsOwnCell ==
    call.op = "hit_test" =>
        /\ call.raised = "none"
        /\ normalize(RayOrigin) \in DOMAIN world
             => call.ret = Pair(normalize(RayOrigin), None)
        /\ (call.ret = Pair(None, None)) = (OccupiedSamples = {})

\* a ray cast from inside an occupied cell
C7_Witness ==
    /\ call.op = "hit_test"
    /\ normalize(RayOrigin) \in DOMAIN world
    /\ call.ret.hit = normalize(RayOrigin)
    /\ call.ret.previous = None

\* C20: whenever hit_test returns a hit h with a previous p that is not None, p is
\* the rounded coordinate of the sample just before the hitting one, p differs
\* from h, and p is not occupied.
C20_PreviousIsSampleBeforeHit ==
    (call.op = "hit_test" /\ call.ret.hit # None /\ call.ret.previous # None) =>
        /\ FirstOccupied >= 1
        /\ call.ret.hit = normalize(Sample(FirstOccupied))
        /\ call.ret.previous = normalize(Sample(FirstOccupied - 1))
        /\ call.ret.previous # call.ret.hit
        /\ call.ret.previous \notin DOMAIN world

\* a hit whose previous cell was sampled more than once and differs from the cell
\* of the ray's origin
C20_Witness ==
    /\ call.op = "hit_test"
    /\ call.ret.hit # None
    /\ call.ret.previous # None
    /\ FirstOccupied >= 2
    /\ normalize(Sample(FirstOccupied - 2)) = call.ret.previous
    /\ call.ret.previous # normalize(RayOrigin)

\* a direction of length 1 whose components are multiples of 0.2
IsUnit(v) ==
    /\ \A i \in 1..3 : v[i] % (Scale \div 5) = 0
    /\ LET c == [i \in 1..3 |-> v[i] \div (Scale \div 5)]
       IN  c[1] * c[1] + c[2] * c[2] + c[3] * c[3] = 25

\* |a|
Abs(a) == IF a < 0 THEN -a ELSE a

\* two cells that share a face: 1 apart on one axis, equal on the other two
FaceAdjacent(p, h) ==
    \E i \in 1..3 :
       /\ Abs(p[i] - h[i]) = 1
       /\ \A j \in (1..3) \ {i} : p[j] = h[j]

\* C21: whenever hit_test with a direction of length 1 returns a hit with a
\* previous cell that is not None, the previous cell shares a face with the hit:
\* they differ by exactly 1 along exactly one axis and agree on the other two.
C21_PreviousIsFaceAdjacent ==
    (/\ call.op = "hit_test"
     /\ IsUnit(RayVector)
     /\ call.ret.hit # None
     /\ call.ret.previous # None)
        => FaceAdjacent(call.ret.previous, call.ret.hit)

-----------------------------------------------------------------------------
(* Properties of collide *)

\* the desired position a collide call was made with, and its base cell
Desired == call.args[1]
Base == normalize(Desired)

\* the world of C8: one voxel, at (0, 0, 0)
C8_World == DOMAIN world = {<<0, 0, 0>>}

\* C8, as claimed: with the only voxel at (0, 0, 0), collide on the desired position
\* (0, 0, 0.9) returns (0, 0, 1.25) and zeroes the vertical velocity.
C8_ClampsToOnePointTwoFive ==
    [][ (call'.op = "collide" /\ C8_World
           /\ call'.args[1] = <<0, 0, (9 * Scale) \div 10>>)
          => /\ call'.ret = <<0, 0, (5 * Scale) \div 4>>
             /\ dy' = 0 ]_vars

\* C8, amended: with the only voxel at (0, 0, 0), collide on (0, 0, 0.9) returns
\* (0, 0, 0.9) and leaves the vertical velocity as it was (the overlap 0.1 with the
\* base cell (0, 0, 1) is below pad); the clamp happens below 0.75: collide on
\* (0, 0.7, 0), y being the vertical axis, returns (0, 0.75, 0) and zeroes the
\* vertical velocity, and collide on (0, 0, 0.7) returns (0, 0, 0.75) and leaves it.
C8_ClampsToPointSevenFive ==
    [][ (call'.op = "collide" /\ C8_World) =>
          /\ call'.args[1] = <<0, 0, (9 * Scale) \div 10>>
               => (call'.ret = call'.args[1] /\ dy' = dy)
          /\ call'.args[1] = <<0, (7 * Scale) \div 10, 0>>
               => (call'.ret = <<0, (3 * Scale) \div 4, 0>> /\ dy' = 0)
          /\ call'.args[1] = <<0, 0, (7 * Scale) \div 10>>
               => (call'.ret = <<0, 0, (3 * Scale) \div 4>> /\ dy' = dy) ]_vars

\* collide was called on (0, 0, 0.9) above the single voxel with a velocity, and
\* returned the position and kept the velocity
C8_Witness ==
    /\ call.op = "collide"
    /\ C8_World
    /\ Desired = <<0, 0, (9 * Scale) \div 10>>
    /\ call.ret = Desired
    /\ dy = -Vel(TERMINAL_VELOCITY)

\* C9: collide only clamps: each axis of the result is the desired coordinate, or
\* lies exactly pad from the centre of the base cell, on the side the desired
\* coordinate is on; so an axis moves by at most 0.5 - pad and the result stays in
\* the base cell.
C9_OnlyClampsPenetratingAxes ==
    call.op = "collide" =>
        /\ \A i \in 1..3 :
             /\ \/ call.ret[i] = Desired[i]
                \/ /\ Abs(call.ret[i] - Fix(Base[i])) = Scale \div 4
                   /\ Abs(Desired[i] - Fix(Base[i])) > Scale \div 4
                   /\ (Desired[i] > Fix(Base[i])) = (call.ret[i] > Fix(Base[i]))
             /\ Abs(call.ret[i] - Desired[i]) <= Scale \div 2 - Scale \div 4
        /\ normalize(call.ret) = Base

\* a call that clamped two axes at once, one of them by the full 0.25
C9_Witness ==
    /\ call.op = "collide"
    /\ Cardinality({i \in 1..3 : call.ret[i] # Desired[i]}) >= 2
    /\ \E i \in 1..3 : Abs(call.ret[i] - Desired[i]) = Scale \div 4

\* an occupied neighbour exists for a vertical face whose overlap is at least pad:
\* the cell above or below the base cell, or the one under that
VerticalContact ==
    \E s \in {1, -1} :
        /\ (call'.args[1][2] - Fix(normalize(call'.args[1])[2])) * s >= Scale \div 4
        /\ \E k \in 0..(call'.args[2] - 1) :
              <<normalize(call'.args[1])[1],
                normalize(call'.args[1])[2] - k + s,
                normalize(call'.args[1])[3]>> \in DOMAIN world

\* C10: a collide call zeroes the vertical velocity exactly when an occupied
\* neighbour is found for a vertical face with overlap at least pad; otherwise
\* (only horizontal faces collide, or none) it leaves the velocity unchanged.
C10_ZeroesVelocityIffVerticalContact ==
    [][ call'.op = "collide" =>
          IF VerticalContact THEN dy' = 0 ELSE dy' = dy ]_vars

\* a call in which a horizontal axis was clamped and the velocity kept
C10_Witness ==
    /\ call.op = "collide"
    /\ call.ret[2] = Desired[2]
    /\ call.ret[1] # Desired[1]
    /\ dy = JUMP_SPEED

\* a call in which the vertical axis was clamped and the velocity is zero
C10_WitnessVertical ==
    /\ call.op = "collide"
    /\ call.ret[2] # Desired[2]
    /\ dy = 0

\* the unit vector of the face of axis i on side s (1 or -1)
FaceOn(i, s) == [j \in 1..3 |-> IF j = i THEN s ELSE 0]

\* the overlap of the desired position with the face of axis i on side s
Overlap(i, s) == (Desired[i] - Fix(Base[i])) * s

\* the neighbour collide looks at for that face at the vertical offset k
NeighbourAt(i, s, k) == Add(<<Base[1], Base[2] - k, Base[3]>>, FaceOn(i, s))

\* C17, as claimed: for a face with overlap at least pad, an occupied neighbour at
\* the vertical offset k = player_height causes a correction: the coordinate of
\* that axis is returned pad from the centre of the base cell.
C17_OffsetPlayerHeightCorrects ==
    call.op = "collide" =>
        \A i \in 1..3, s \in {1, -1} :
            (Overlap(i, s) >= Scale \div 4 /\ NeighbourAt(i, s, call.args[2]) \in DOMAIN world)
                => call.ret[i] = Fix(Base[i]) + s * (Scale \div 4)

\* C17, amended: for a face with overlap at least pad, collide examines the
\* vertical offsets 0 .. player_height - 1 (the cells at the level of the base cell
\* and player_height - 1 below it); an axis is moved exactly when its overlap
\* exceeds pad and a neighbour at one of these offsets is occupied. A neighbour at
\* the offset k = player_height is not examined and causes no correction.
C17_ExaminesOffsetsBelowHeight ==
    call.op = "collide" =>
        \A i \in 1..3 :
            (call.ret[i] # Desired[i]) =
                (\E s \in {1, -1} :
                    /\ Overlap(i, s) > Scale \div 4
                    /\ \E k \in 0..(call.args[2] - 1) : NeighbourAt(i, s, k) \in DOMAIN world)

\* a call whose only occupied neighbour, for a face overlapped by more than pad,
\* lies at the offset player_height: the position came back as desired
C17_Witness ==
    /\ call.op = "collide"
    /\ call.ret = Desired
    /\ \E i \in 1..3, s \in {1, -1} :
          /\ Overlap(i, s) > Scale \div 4
          /\ NeighbourAt(i, s, call.args[2]) \in DOMAIN world

\* a call corrected by the neighbour at the last offset examined, player_height - 1,
\* the one at offset 0 being absent
C17_WitnessLastOffset ==
    /\ call.op = "collide"
    /\ \E s \in {1, -1} :
          /\ Overlap(1, s) > Scale \div 4
          /\ NeighbourAt(1, s, 0) \notin DOMAIN world
          /\ NeighbourAt(1, s, call.args[2] - 1) \in DOMAIN world
          /\ call.ret[1] # Desired[1]

\* C18: with pad at 0.5 or more the player falls through: whatever the world and
\* the desired position, collide returns the desired position unchanged on all
\* three axes.
C18_PadHalfNeverCorrects ==
    (call.op = "collide" /\ call.args[3] >= Scale \div 2) => call.ret = Desired

\* a call with pad 0.5 on a position that pad 0.25 would have pushed down from
\* the voxel overhead: the overlap with the ceiling face is exactly 0.5, the
\* branch is taken, the correction is zero and the velocity is zeroed
C18_Witness ==
    /\ call.op = "collide"
    /\ call.args[3] = Scale \div 2
    /\ Overlap(2, 1) = Scale \div 2
    /\ \E k \in 0..(call.args[2] - 1) : NeighbourAt(2, 1, k) \in DOMAIN world
    /\ dy = 0
    /\ call.ret = Desired
    /\ Window_collide(world, dy, Desired, call.args[2]).p # Desired

\* a call with pad above 0.5 in a world holding all the neighbours of the model
C18_WitnessFullWorld ==
    /\ call.op = "collide"
    /\ call.args[3] > Scale \div 2
    /\ DOMAIN world = CollideCells
    /\ \E i \in 1..3 : Abs(Desired[i] - Fix(Base[i])) = Scale \div 2
    /\ call.ret = Desired

-----------------------------------------------------------------------------
(* Properties of the vertical motion *)

\* C11: for a controller that is not flying, whatever the time steps, the jumps
\* and the collisions, the vertical velocity is never below -TERMINAL_VELOCITY
\* (-50) at the end of an integration step: Window.dy after update and the jump
\* key, Character.dz after update.
C11_NeverBelowTerminalVelocity ==
    /\ dy >= -Vel(TERMINAL_VELOCITY)
    /\ dz >= -Vel(TERMINAL_VELOCITY)

\* a Window that has fallen for more than 2.5 s: gravity would have taken the
\* velocity below -50 and the tick left it at -50
C11_Witness ==
    /\ prog = "main"
    /\ call.op = "update"
    /\ ~flying
    /\ dy = -Vel(TERMINAL_VELOCITY)
    /\ position[2] < Fix(-63)

\* a Character updated with a time step of 10 s, left at -50
C11_WitnessCharacter ==
    /\ prog = "characters"
    /\ call.op = "update"
    /\ call.args[1] = 10 * TScale
    /\ ~flying
    /\ dz = -Vel(TERMINAL_VELOCITY)

\* the square root a fixed-point velocity v is of h: v = sqrt(2 * GRAVITY * h), to
\* the unit
IsJumpSpeedFor(v, h) ==
    /\ v * v <= 2 * GRAVITY * h * VScale * VScale
    /\ (v + 1) * (v + 1) > 2 * GRAVITY * h * VScale * VScale

C12_Witness ==
    /\ prog = "main"
    /\ call.op = "on_key_press"
    /\ Arg = "SPACE"
    /\ ~flying
    /\ dy < 0

C12_WitnessCharacter ==
    /\ prog = "characters"
    /\ call.op = "update"
    /\ "Jump" \in call.args[3]
    /\ ~flying
    /\ dz = Character_JUMP_SPEED - gravity_step(call.args[1])
    /\ position[3] > FloorLevel

\* the Window's player rests on a voxel: it overlaps the floor face of its cell by
\* pad or more and one of the cells collide looks at under it is occupied
Supported ==
    LET np == normalize(position)
    IN  /\ Fix(np[2]) - position[2] >= Scale \div 4
        /\ \E k \in 0..(PLAYER_HEIGHT - 1) : InWorld(world, <<np[1], np[2] - k - 1, np[3]>>)

\* C13: a jump while airborne is a no-op in every reachable state: the vertical
\* velocity of the Window is exactly 0 only when the player is supported by a
\* voxel below, and the SPACE key pressed while it is not supported leaves the
\* velocity unchanged.
C13_AirborneJumpIsNoop ==
    /\ [](prog = "main" /\ dy = 0 => Supported)
    /\ [][ (prog = "main" /\ call'.op = "on_key_press" /\ call'.args[1] = "SPACE"
               /\ ~Supported) => dy' = dy ]_vars

\* C15: each tick with elapsed time dt makes exactly 8 sub-steps, each of
\* min(dt, 0.2) / 8, so that the time simulated in a tick is at most 0.2 s: for
\* Window.update called dt after the last call and for Character.update(dt, world).
C15_EightSubstepsOfClampedDt ==
    (call.op = "update" /\ call.raised = "none") =>
        /\ call.ret.steps = 8
        /\ call.ret.dt * 8 = (IF call.args[1] < TScale \div 5 THEN call.args[1] ELSE TScale \div 5)
        /\ call.ret.steps * call.ret.dt <= TScale \div 5

-----------------------------------------------------------------------------
(* Properties of the steering *)

C14_WitnessCharacter ==
    /\ prog = "characters"
    /\ call.op = "update"
    /\ call.raised = "none"
    /\ call.args[4] = <<6, 8>>
    /\ rotation[1] <= Deg(-360)
    /\ rotation[2] = Deg(90)

\* the sign of a number
Sign(a) == IF a > 0 THEN 1 ELSE IF a < 0 THEN -1 ELSE 0

\* C19: in flying mode with only forward or only back held, moving forward gives
\* a vertical component with the sign of sin(pitch) and moving backward one with
\* the opposite sign: for Window (W forward, S backward) and for Character, whose
\* update maps Up to forward and Down to backward.
C19_ForwardClimbsWithPitch ==
    (call.op = "get_motion_vector" /\ call.raised = "none" /\ flying) =>
        /\ (prog = "main" /\ keys = {"W"}) => Sign(call.ret[2]) = Sign(Sin(rotation[2]))
        /\ (prog = "main" /\ keys = {"S"}) => Sign(call.ret[2]) = -Sign(Sin(rotation[2]))
        /\ (prog = "characters" /\ keys = {"Up"}) => Sign(call.ret[3]) = Sign(Sin(rotation[2]))
        /\ (prog = "characters" /\ keys = {"Down"}) => Sign(call.ret[3]) = -Sign(Sin(rotation[2]))

\* C23: Character.update(dt, world) called with a VoxelWorld returns without
\* raising and stores as the new position what the collision resolver makes of
\* the position plus the displacement of this update; the VoxelWorld handed over
\* holds no voxel, and the resolver leaves a position in an empty world as it is.
C23_UpdateWithVoxelWorldCommits ==
    [][ (prog = "characters" /\ call'.op = "update" /\ call'.args[2] = "VoxelWorld")
        => LET n == call'.args[1]
               mv == Character_get_motion_vector(Character_strafe(call'.args[3]),
                                                 rotation, flying)
               speed == IF flying THEN FLYING_SPEED ELSE WALKING_SPEED
               desired == <<position[1] + mv[1] * n * speed,
                            position[2] + mv[2] * n * speed,
                            position[3] + mv[3] * n * speed
                                        + (IF flying THEN 0 ELSE dz' * n)>>
           IN  /\ call'.raised = "none"
               /\ Keys(voxels) = {} => position' = desired
      ]_vars

====
